---- MODULE Spec2Model ----
(***************************************************************************)
(* State-machine model of srsenb::rrc_nr (the NR RRC engine): system       *)
(* information generation and storage, the table of per-device contexts    *)
(* (rrc_nr::ue), their periodic RRCSetup timers and the MAC/PDCP entry     *)
(* points.  One action per entry point; every action is the whole handler. *)
(***************************************************************************)
EXTENDS Integers, Sequences, FiniteSets, TLC

(***************************************************************************)
(* Bounds of the model.                                                    *)
(***************************************************************************)
\* PDUs written to the link layer per device id before the timer wheel is
\* no longer advanced.
MaxFirings == 3
\* init() is not invoked again once the SI store holds this many PDUs.
MaxStored == 3
\* Firings explored in the specification that runs the transaction counter
\* past the wrap-around of its integer type.
WrapFirings == 259
\* Scheduling entries / mappings per entry of the configurations that
\* generate_sibs() is applied to.
MaxSched == 2
MaxMap == 2

\* Firings per device id in the specification that interleaves the timers of
\* two contexts: enough for a transaction id to come round to 0 again.
MaxInterleaved == 5

\* Capacity of the bounded vectors (template parameter MAX_N) and their
\* element values.
MAX_N == 3
T == {1, 2}

\* Device identifiers (0x46 and 0x47).
RNTI == {70, 71}
\* Logical channel ids delivered by the link layer: srb0, srb1, srb2 and one
\* id that is no signalling bearer.
LCID == 0..3

\* Width of rrc_nr::ue::transaction_id (uint8_t).
TransactionIdModulus == 256

(***************************************************************************)
(* Binary message codec (asn1 pack/unpack), as far as the engine uses it.  *)
(* A PDU is a byte_buffer_t: the bytes and their count N_bytes.            *)
(***************************************************************************)
RECURSIVE Flatten(_)
Flatten(ss) == IF ss = <<>> THEN <<>> ELSE <<Len(Head(ss))>> \o Head(ss) \o Flatten(Tail(ss))

\* bcch_bch_msg_s::pack of a MIB: the enumerated fields by their ASN.1 index.
pack_bcch_bch(mib) ==
  << IF mib.cell_barred = "barred" THEN 0 ELSE 1,
     IF mib.intra_freq_resel = "allowed" THEN 0 ELSE 1 >>

unpack_bcch_bch(bytes) ==
  [cell_barred      |-> IF bytes[1] = 0 THEN "barred" ELSE "not_barred",
   intra_freq_resel |-> IF bytes[2] = 0 THEN "allowed" ELSE "not_allowed"]

\* bcch_dl_sch_msg_s::pack: the c1 choice index (0: systemInformation,
\* 1: systemInformationBlockType1), then the body.
pack_bcch_dl_sch(m) ==
  IF m.type = "sib_type1"
    THEN <<1, IF m.si_sched_info_present THEN 1 ELSE 0>>
         \o (IF m.si_sched_info_present
               THEN <<Len(m.sched_info_list)>> \o Flatten(m.sched_info_list)
               ELSE <<>>)
    ELSE <<0, Len(m.sib_list)>> \o m.sib_list

\* The information blocks of an encoded systemInformation message.
unpack_sys_info(bytes) == SubSeq(bytes, 3, 2 + bytes[2])

\* dl_ccch_msg_s::pack of an rrcSetup: choice index, rrc-TransactionIdentifier
\* (INTEGER 0..3), the DRB identity and the cipheringDisabled presence flag.
pack_dl_ccch(m) ==
  <<0, m.rrc_transaction_id, m.drb_id, IF m.ciphering_disabled_present THEN 1 ELSE 0>>

unpack_dl_ccch(bytes) ==
  [rrc_transaction_id |-> bytes[2], drb_id |-> bytes[3],
   ciphering_disabled_present |-> (bytes[4] = 1)]

\* What bit_ref holds after pack(): everything when the encoder succeeds, the
\* bits written before the failing element (here: the choice index) otherwise.
packed(bytes, ok) == IF ok THEN bytes ELSE SubSeq(bytes, 1, 1)

byte_buffer(bytes) == [msg |-> bytes, N_bytes |-> Len(bytes)]

\* memcpy(dst->msg, src->msg, n); dst->N_bytes = n
memcpy_pdu(dst, src) ==
  [msg     |-> [i \in 1..(IF Len(dst.msg) > src.N_bytes THEN Len(dst.msg) ELSE src.N_bytes)
                  |-> IF i <= src.N_bytes THEN src.msg[i] ELSE dst.msg[i]],
   N_bytes |-> src.N_bytes]

(***************************************************************************)
(* Configuration.  rrc_nr_cfg_t, reduced to the fields the engine reads:   *)
(* sched_info_list is the list of scheduling entries, each the list of its *)
(* sib_map_info types (sib_type2 = 0, sib_type3 = 1, ...); sibs[k] is the  *)
(* information block stored at cfg.sibs[k-1], named by its SIB number.     *)
(***************************************************************************)
\* A default-constructed rrc_nr_cfg_t, with the caller's coreless pairing.
rrc_nr_cfg_t(rnti, lcid, sr_prb, cqi_prb, barred, sched) ==
  [mib                   |-> [cell_barred |-> barred, intra_freq_resel |-> "allowed"],
   nof_prb               |-> 0,
   si_sched_info_present |-> (sched # <<>>),
   sched_info_list       |-> sched,
   nof_sibs              |-> 0,
   sibs                  |-> <<>>,
   coreless_rnti         |-> rnti,
   drb_lcid              |-> lcid,
   sr_nof_prb            |-> sr_prb,
   cqi_nof_prb           |-> cqi_prb]

update_default_cfg(current) ==
  [current EXCEPT
     !.mib                   = [cell_barred |-> "not_barred", intra_freq_resel |-> "allowed"],
     !.nof_prb               = 25,
     !.si_sched_info_present = TRUE,
     !.sched_info_list       = << <<0>> >>,
     !.nof_sibs              = 1,
     !.sibs                  = <<2>>]

\* Faulty variant: si_sched_info_present is not looked at.
nof_messages_unguarded(c) == Len(c.sched_info_list)

\* nof_messages = si_sched_info_present ? sched_info_list.size() : 0
nof_messages(c) == IF c.si_sched_info_present THEN Len(c.sched_info_list) ELSE 0

\* The SI messages generate_sibs() assembles: msg[0] is SIB1, msg[i] the
\* systemInformation message of scheduling entry i-1.
si_messages(c) ==
  LET sched_info == c.sched_info_list
  IN [msg_index \in 1..(nof_messages(c) + 1) |->
        IF msg_index = 1
          THEN [type |-> "sib_type1",
                si_sched_info_present |-> c.si_sched_info_present,
                sched_info_list |-> sched_info]
          ELSE [type |-> "sys_info",
                sib_list |-> [mapping \in 1..Len(sched_info[msg_index - 1]) |->
                                c.sibs[sched_info[msg_index - 1][mapping] + 1]]]]

\* generate_sibs().  alloc_fail_at is the make_byte_buffer() call that returns
\* null (0: the MIB's, i+1: message i's, -1: none); pack_fail_at the pack()
\* call that reports an encoding failure, counted the same way.  The result of
\* pack() is not looked at, so a failed encoding is stored as it stands.
generate_sibs(c, mib_buf, sib_buf, nof_si, alloc_fail_at, pack_fail_at) ==
  IF alloc_fail_at = 0
    THEN [ret |-> "ERROR", mib_buffer |-> mib_buf, sib_buffer |-> sib_buf,
          nof_si_messages |-> nof_si, log |-> <<"error">>]
    ELSE
      LET msg    == si_messages(c)
          packed_n == IF alloc_fail_at = -1 \/ alloc_fail_at > Len(msg)
                        THEN Len(msg) ELSE alloc_fail_at - 1
          ok     == packed_n = Len(msg)
          sibs   == sib_buf \o
                    [i \in 1..packed_n |->
                       byte_buffer(packed(pack_bcch_dl_sch(msg[i]), pack_fail_at # i))]
      IN [ret |-> IF ok THEN "SUCCESS" ELSE "ERROR",
          mib_buffer |-> <<byte_buffer(packed(pack_bcch_bch(c.mib), pack_fail_at # 0))>>,
          sib_buffer |-> sibs,
          nof_si_messages |-> IF ok THEN Len(sibs) - 1 ELSE nof_si,
          log |-> <<"debug">> \o [i \in 1..packed_n |-> "rrc_message"]
                  \o (IF ok THEN <<>> ELSE <<"error">>)]

\* config_mac(): the cell configuration handed to the scheduler.
config_mac(c, sib_buf, nof_si) ==
  [to |-> "mac", fn |-> "cell_cfg",
   sib_len   |-> [i \in 1..(nof_si + 1) |-> sib_buf[i].N_bytes],
   nrb_pucch |-> IF c.sr_nof_prb > c.cqi_nof_prb THEN c.sr_nof_prb ELSE c.cqi_nof_prb,
   nof_prb   |-> c.nof_prb]

(***************************************************************************)
(* State of the engine and of its collaborators.                           *)
(***************************************************************************)
VARIABLES
  running,          \* rrc_nr::running
  cfg,              \* rrc_nr::cfg
  mib_buffer,       \* rrc_nr::mib_buffer: <<>> (null) or <<pdu>>
  sib_buffer,       \* rrc_nr::sib_buffer: the SI PDUs
  nof_si_messages,  \* rrc_nr::nof_si_messages
  users,            \* rrc_nr::users: rnti -> ue, on the ids that have a context
  timers,           \* the timer wheel: rnti -> number of running timers whose
                    \* callback belongs to a context of that rnti
  rlc_sdus,         \* per rnti, the number of SDUs written to the link layer
                    \* since the id was last given a context
  crashed,          \* the process has been terminated (null dereference)
  last,             \* the last call: its name, return value, log records, the
                    \* calls it made on the collaborators and its output buffer
  NDEBUG,           \* srslte::bounded_vector: whether assert() is compiled out
  this_,            \* a bounded_vector<T, MAX_N>: [size_, buffer]
  other,            \* a second bounded_vector<T, MAX_N>, the argument of the
                    \* copy and move operations
  other_alive,      \* whether other is within its lifetime
  ref,              \* the sequences this_ and other hold according to the
                    \* operations applied so far
  aborted,          \* an assert() failed: abort()
  vec_op            \* the last operation on the vectors

vars == <<running, cfg, mib_buffer, sib_buffer, nof_si_messages, users, timers,
          rlc_sdus, crashed, last, NDEBUG, this_, other, other_alive, ref, aborted,
          vec_op>>

\* The state of the engine and the state of the vectors.
rrc_vars == <<running, cfg, mib_buffer, sib_buffer, nof_si_messages, users, timers,
              rlc_sdus, crashed, last>>
vec_vars == <<NDEBUG, this_, other, other_alive, ref, aborted, vec_op>>

\* The record kept of a call.
call_record(op, ret, log, calls, buffer) ==
  [op |-> op, ret |-> ret, log |-> log, calls |-> calls, buffer |-> buffer]

\* The destination buffer the scheduler passes to the read calls.
dest_buffer == byte_buffer(<<7>>)

(***************************************************************************)
(* The periodic timer of a context (srsran::unique_timer).                 *)
(***************************************************************************)
\* unique_timer::run(): the timer of the context of rnti counts down.
unique_timer_run(t, rnti) == [t EXCEPT ![rnti] = @ + 1]

\* Expiry: the wheel takes the timer out of the running ones, then calls back.
unique_timer_trigger(t, rnti) == [t EXCEPT ![rnti] = @ - 1]

\* ~unique_timer(): a timer destroyed with its context no longer runs.
unique_timer_release(t, rnti) == [t EXCEPT ![rnti] = IF @ > 0 THEN @ - 1 ELSE 0]

(***************************************************************************)
(* rrc_nr::ue                                                              *)
(***************************************************************************)
\* ue::ue(): transaction_id = 0.  nof_firings counts the callbacks run on the
\* context (not a field of the class).
ue_new == [transaction_id |-> 0, nof_firings |-> 0]

\* Faulty variant: the timer is set but never started.
ue_ctor_timer_not_run(t, rnti) == t

\* ue::ue(): the timer is set to 5000 and started.
ue_ctor_timer(t, rnti) == unique_timer_run(t, rnti)

\* Faulty variant: the counter is incremented before it is read.
rrc_transaction_id_preincr(ue) == (ue.transaction_id + 1) % 4

\* rrc_transaction_id = ((transaction_id++) % 4u)
rrc_transaction_id(ue) == ue.transaction_id % 4

transaction_id_incr(ue) ==
  [ue EXCEPT !.transaction_id = (@ + 1) % TransactionIdModulus,
             !.nof_firings    = @ + 1]

\* The message send_connection_setup() builds.
rrc_setup_msg(ue) ==
  [rrc_transaction_id |-> rrc_transaction_id(ue), drb_id |-> 1,
   ciphering_disabled_present |-> TRUE]

\* Faulty variant: every PDU is written for the same id.
send_dl_ccch_fixed_rnti(msg, rnti, pack_ok) ==
  [log   |-> (IF pack_ok THEN <<>> ELSE <<"error">>) \o <<"rrc_message">>,
   calls |-> << [to |-> "rlc", fn |-> "write_sdu", rnti |-> 70, lcid |-> 0,
                 pdu |-> byte_buffer(packed(pack_dl_ccch(msg), pack_ok))] >>]

\* send_dl_ccch() on an allocated buffer: the log records and the calls made.
\* An encoding failure is logged and the PDU written all the same.
send_dl_ccch(msg, rnti, pack_ok) ==
  [log   |-> (IF pack_ok THEN <<>> ELSE <<"error">>) \o <<"rrc_message">>,
   calls |-> << [to |-> "rlc", fn |-> "write_sdu", rnti |-> rnti, lcid |-> 0,
                 pdu |-> byte_buffer(packed(pack_dl_ccch(msg), pack_ok))] >>]

(***************************************************************************)
(* The context table.                                                      *)
(***************************************************************************)
\* Faulty variant: no check for an existing context.
do_add_user_unchecked(u, t, rnti) ==
  [users  |-> [r \in DOMAIN u \cup {rnti} |-> IF r = rnti THEN ue_new ELSE u[r]],
   timers |-> ue_ctor_timer(t, rnti),
   log    |-> <<"info">>,
   calls  |-> << [to |-> "rlc", fn |-> "add_user", rnti |-> rnti],
                 [to |-> "pdcp", fn |-> "add_user", rnti |-> rnti] >>]

\* add_user(): [users, timers, log, calls] after the call.
do_add_user(u, t, rnti) ==
  IF rnti \notin DOMAIN u
    THEN [users  |-> [r \in DOMAIN u \cup {rnti} |-> IF r = rnti THEN ue_new ELSE u[r]],
          timers |-> ue_ctor_timer(t, rnti),
          log    |-> <<"info">>,
          calls  |-> << [to |-> "rlc", fn |-> "add_user", rnti |-> rnti],
                        [to |-> "pdcp", fn |-> "add_user", rnti |-> rnti] >>]
    ELSE [users |-> u, timers |-> t, log |-> <<"error">>, calls |-> <<>>]

\* Faulty variant: the timers of the destroyed contexts are left running.
release_none(t, ids) == t

RECURSIVE release_all(_, _)
release_all(t, ids) ==
  IF ids = {} THEN t
  ELSE LET r == CHOOSE x \in ids : TRUE
       IN release_all(unique_timer_release(t, r), ids \ {r})

\* Faulty variant: the table is emptied without destroying the contexts.
users_clear_leak(u, t) == [users |-> [r \in {} |-> ue_new], timers |-> t]

\* users.clear(): every context is destroyed, and its timer with it.
users_clear(u, t) ==
  [users |-> [r \in {} |-> ue_new], timers |-> release_all(t, DOMAIN u)]

\* Faulty variant: the flag is flipped.
stop_running_toggle(r) == ~r

\* stop(): the running flag after the call.
stop_running(r) == IF r THEN FALSE ELSE r

\* Faulty variant: a PDU for an unknown id is taken for one on an invalid bearer.
handle_pdu_log_no_warning(u, rnti, lcid, pdu_present) ==
  (IF pdu_present THEN <<"info">> ELSE <<>>)
  \o (IF rnti \in DOMAIN u /\ lcid \in {0, 1, 2} THEN <<>> ELSE <<"error">>)

\* Faulty variant: only srb0 is taken for a valid bearer.
handle_pdu_log_srb0_only(u, rnti, lcid, pdu_present) ==
  (IF pdu_present THEN <<"info">> ELSE <<>>)
  \o (IF rnti \in DOMAIN u
        THEN (IF lcid = 0 THEN <<>> ELSE <<"error">>)
        ELSE <<"warning">>)

\* handle_pdu(): the log records of the call.
handle_pdu_log(u, rnti, lcid, pdu_present) ==
  (IF pdu_present THEN <<"info">> ELSE <<>>)
  \o (IF rnti \in DOMAIN u
        THEN (IF lcid \in {0, 1, 2} THEN <<>> ELSE <<"error">>)
        ELSE <<"warning">>)

(***************************************************************************)
(* MAC interface: the read calls.  tailroom is buffer->get_tailroom().     *)
(***************************************************************************)
\* Faulty variant: a PDU that does not fit is cut to the room there is.
do_read_pdu_bcch_bch_truncating(mib_buf, tailroom, buffer) ==
  IF mib_buf = <<>>
    THEN [ret |-> "ERROR", buffer |-> buffer, log |-> <<>>]
    ELSE LET n == IF tailroom < mib_buf[1].N_bytes THEN tailroom ELSE mib_buf[1].N_bytes
         IN [ret |-> "SUCCESS",
             buffer |-> memcpy_pdu(buffer, byte_buffer(SubSeq(mib_buf[1].msg, 1, n))),
             log |-> <<>>]

do_read_pdu_bcch_bch(mib_buf, tailroom, buffer) ==
  IF mib_buf = <<>> \/ tailroom < mib_buf[1].N_bytes
    THEN [ret |-> "ERROR", buffer |-> buffer, log |-> <<>>]
    ELSE [ret |-> "SUCCESS", buffer |-> memcpy_pdu(buffer, mib_buf[1]), log |-> <<>>]

\* if (sib_index >= sib_buffer.size())
sib_index_invalid(sib_buf, sib_index) == sib_index >= Len(sib_buf)

do_read_pdu_bcch_dlsch(sib_buf, sib_index, tailroom, buffer) ==
  IF sib_index_invalid(sib_buf, sib_index)
    THEN [ret |-> "ERROR", buffer |-> buffer, log |-> <<"error">>]
    ELSE IF tailroom < sib_buf[sib_index + 1].N_bytes
      THEN [ret |-> "ERROR", buffer |-> buffer, log |-> <<"error">>]
      ELSE [ret |-> "SUCCESS", buffer |-> memcpy_pdu(buffer, sib_buf[sib_index + 1]),
            log |-> <<>>]

(***************************************************************************)
(* srslte::bounded_vector<T, MAX_N>.  A vector is [size_, buffer]; buffer  *)
(* has MAX_N slots, each raw storage or an object of T.  Iterators are     *)
(* offsets into buffer (begin() is 0); slot i of the code is buffer[i+1].  *)
(* A member function gives [abort, v]: whether an assert() failed, and the *)
(* vector as it then is.  ndebug says whether assert() is compiled out.    *)
(***************************************************************************)
raw == <<>>
obj(x) == <<x>>

\* bounded_vector() = default
bounded_vector_new == [size_ |-> 0, buffer |-> [i \in 1..MAX_N |-> raw]]

Done(v) == [abort |-> FALSE, v |-> v]
Abort(v) == [abort |-> TRUE, v |-> v]

\* operator[](i): assert(i < size_)
subscript_asserts(v, i, ndebug) == ~ndebug /\ ~(i < v.size_)

\* begin() is data(), which is &front(), which is &(*this)[0].
begin_asserts(v, ndebug) == subscript_asserts(v, 0, ndebug)

\* end() is begin() + size_.
end_asserts(v, ndebug) == begin_asserts(v, ndebug)

\* back(): assert(size_ > 0), then *(begin() + size_ - 1)
back_asserts(v, ndebug) == (~ndebug /\ ~(v.size_ > 0)) \/ begin_asserts(v, ndebug)

\* The objects the vector holds, in order.
elements(v) == [i \in 1..v.size_ |-> v.buffer[i]]

\* destroy(it_start, it_end): the destructor of every object in the range.
destroy(v, it_start, it_end) ==
  [v EXCEPT !.buffer = [i \in 1..MAX_N |->
                          IF it_start < i /\ i <= it_end THEN raw ELSE v.buffer[i]]]

\* std::move(first, last, d_first) within one buffer, towards the front.
move_down(v, it_first, it_last, d_first) ==
  [v EXCEPT !.buffer = [i \in 1..MAX_N |->
                          IF d_first < i /\ i <= d_first + (it_last - it_first)
                            THEN v.buffer[i + (it_first - d_first)]
                            ELSE v.buffer[i]]]

\* clear(): destroy(begin(), end()); size_ = 0
clear(v, ndebug) ==
  IF begin_asserts(v, ndebug) \/ end_asserts(v, ndebug)
    THEN Abort(v)
    ELSE Done([destroy(v, 0, v.size_) EXCEPT !.size_ = 0])

\* append(it_begin, it_end): the range is given as the objects it holds.
append_range(v, objs, ndebug) ==
  IF ~ndebug /\ ~(Len(objs) + v.size_ <= MAX_N)
    THEN Abort(v)
  ELSE IF end_asserts(v, ndebug)
    THEN Abort(v)
  ELSE Done([size_  |-> v.size_ + Len(objs),
             buffer |-> [i \in 1..MAX_N |->
                           IF v.size_ < i /\ i <= v.size_ + Len(objs)
                             THEN objs[i - v.size_] ELSE v.buffer[i]]])

\* append(N, element)
append_fill(v, N, element, ndebug) ==
  IF ~ndebug /\ ~(N + v.size_ <= MAX_N)
    THEN Abort(v)
  ELSE IF end_asserts(v, ndebug)
    THEN Abort(v)
  ELSE Done([size_  |-> v.size_ + N,
             buffer |-> [i \in 1..MAX_N |->
                           IF v.size_ < i /\ i <= v.size_ + N
                             THEN obj(element) ELSE v.buffer[i]]])

\* assign(nof_elems, value): clear(); append(nof_elems, value)
assign_fill(v, nof_elems, value, ndebug) ==
  LET c == clear(v, ndebug)
  IN IF c.abort THEN c ELSE append_fill(c.v, nof_elems, value, ndebug)

\* assign(it_start, it_end) and assign(ilist): clear(); append(it_start, it_end)
assign_range(v, objs, ndebug) ==
  LET c == clear(v, ndebug)
  IN IF c.abort THEN c ELSE append_range(c.v, objs, ndebug)

\* push_back(value): size_++; assert(size_ <= MAX_N); new (&back()) T(value)
push_back_of(v, value, ndebug) ==
  LET w == [v EXCEPT !.size_ = @ + 1]
  IN IF (~ndebug /\ ~(w.size_ <= MAX_N)) \/ back_asserts(w, ndebug)
       THEN Abort(w)
       ELSE Done([w EXCEPT !.buffer[w.size_] = obj(value)])

\* emplace_back(args...): as push_back, constructing the object in place.
emplace_back_of(v, value, ndebug) ==
  LET w == [v EXCEPT !.size_ = @ + 1]
  IN IF (~ndebug /\ ~(w.size_ <= MAX_N)) \/ back_asserts(w, ndebug)
       THEN Abort(w)
       ELSE Done([w EXCEPT !.buffer[w.size_] = obj(value)])

\* pop_back(): assert(size_ > 0); back().~T(); size_--
pop_back_of(v, ndebug) ==
  IF (~ndebug /\ ~(v.size_ > 0)) \/ back_asserts(v, ndebug)
    THEN Abort(v)
    ELSE Done([destroy(v, v.size_ - 1, v.size_) EXCEPT !.size_ = @ - 1])

\* Faulty variant: the elements behind pos are not moved down.
erase_pop_only(v, pos, ndebug) == pop_back_of(v, ndebug)

\* erase(pos): the asserts, std::move(pos + 1, end(), pos), pop_back()
erase_of(v, pos, ndebug) ==
  IF begin_asserts(v, ndebug) \/ (~ndebug /\ ~(pos >= 0))
     \/ end_asserts(v, ndebug) \/ (~ndebug /\ ~(pos < v.size_))
    THEN Abort(v)
    ELSE pop_back_of(move_down(v, pos + 1, v.size_, pos), ndebug)

\* erase(it_start, it_end)
erase_range_of(v, it_start, it_end, ndebug) ==
  IF begin_asserts(v, ndebug) \/ (~ndebug /\ ~(it_start >= 0))
     \/ (~ndebug /\ ~(it_start <= it_end))
     \/ end_asserts(v, ndebug) \/ (~ndebug /\ ~(it_end <= v.size_))
    THEN Abort(v)
    ELSE LET new_end == it_start + (v.size_ - it_end)
             m == move_down(v, it_end, v.size_, it_start)
         IN Done([destroy(m, new_end, v.size_) EXCEPT !.size_ = new_end])

\* resize(count, value)
resize_of(v, count, value, ndebug) ==
  IF v.size_ > count
    THEN IF begin_asserts(v, ndebug) \/ end_asserts(v, ndebug)
           THEN Abort(v)
           ELSE Done([destroy(v, count, v.size_) EXCEPT !.size_ = count])
  ELSE IF v.size_ < count
    THEN append_fill(v, count - v.size_, value, ndebug)
    ELSE Done(v)

\* operator=(const bounded_vector& other), this != &other:
\* assign(other.begin(), other.end())
copy_assign_of(v, o, ndebug) ==
  IF begin_asserts(o, ndebug) \/ end_asserts(o, ndebug)
    THEN Abort(v)
    ELSE assign_range(v, elements(o), ndebug)

\* operator=(bounded_vector&& other), this != &other: [abort, v, o]
move_assign_of(v, o, ndebug) ==
  LET min_common_size == IF o.size_ < v.size_ THEN o.size_ ELSE v.size_
      \* the objects that are there already are moved onto, the rest destroyed
      first == IF min_common_size > 0
                 THEN IF begin_asserts(o, ndebug) \/ begin_asserts(v, ndebug)
                         \/ end_asserts(v, ndebug)
                        THEN Abort(v)
                        ELSE Done(destroy(
                               [v EXCEPT !.buffer =
                                  [i \in 1..MAX_N |-> IF i <= min_common_size
                                                        THEN o.buffer[i] ELSE v.buffer[i]]],
                               min_common_size, v.size_))
                 ELSE clear(v, ndebug)
  IN IF first.abort
       THEN [abort |-> TRUE, v |-> first.v, o |-> o]
     ELSE IF begin_asserts(o, ndebug) \/ end_asserts(o, ndebug)
             \/ end_asserts(first.v, ndebug)
       THEN [abort |-> TRUE, v |-> first.v, o |-> o]
     ELSE LET \* uninitialized_copy of the rest to end(), which is begin() + size_
              \* with size_ still the old size
              w == [size_  |-> o.size_,
                    buffer |-> [i \in 1..MAX_N |->
                                  IF first.v.size_ < i
                                     /\ i <= first.v.size_ + (o.size_ - min_common_size)
                                    THEN o.buffer[min_common_size + (i - first.v.size_)]
                                    ELSE first.v.buffer[i]]]
              c == clear(o, ndebug)
          IN [abort |-> c.abort, v |-> w, o |-> c.v]

\* bounded_vector(const bounded_vector& other): append(other.begin(), other.end())
copy_ctor(o, ndebug) ==
  IF begin_asserts(o, ndebug) \/ end_asserts(o, ndebug)
    THEN Abort(bounded_vector_new)
    ELSE append_range(bounded_vector_new, elements(o), ndebug)

\* bounded_vector(bounded_vector&& other): [abort, v, o]
move_ctor(o, ndebug) ==
  IF begin_asserts(o, ndebug) \/ end_asserts(o, ndebug)
     \/ end_asserts(bounded_vector_new, ndebug)
    THEN [abort |-> TRUE, v |-> bounded_vector_new, o |-> o]
    ELSE LET w == [size_ |-> o.size_,
                   buffer |-> [i \in 1..MAX_N |->
                                 IF i <= o.size_ THEN o.buffer[i] ELSE raw]]
             c == clear(o, ndebug)
         IN [abort |-> c.abort, v |-> w, o |-> c.v]

\* bounded_vector(size_type N, const T& val): append(N, val)
fill_ctor(N, val, ndebug) == append_fill(bounded_vector_new, N, val, ndebug)

\* ~bounded_vector(): destroy(begin(), end())
dtor(v, ndebug) ==
  IF begin_asserts(v, ndebug) \/ end_asserts(v, ndebug)
    THEN Abort(v)
    ELSE Done(destroy(v, 0, v.size_))

\* The vectors as the constructor of their owner leaves them.
VecInit ==
  /\ NDEBUG = TRUE
  /\ this_ = bounded_vector_new
  /\ other = bounded_vector_new
  /\ other_alive = FALSE
  /\ ref = [this_ |-> <<>>, other |-> <<>>]
  /\ aborted = FALSE
  /\ vec_op = "bounded_vector"

(***************************************************************************)
(* Inputs.                                                                 *)
(***************************************************************************)
\* Configurations a caller passes to init().
CallerCfgs ==
  { rrc_nr_cfg_t(rnti, 4, 2, 1, "barred", sched) :
      rnti \in RNTI, sched \in {<<>>, << <<0>>, <<0>> >>} }

\* Room left in the scheduler's buffer.
Tailrooms == {0, 2, 8}

(***************************************************************************)
(* Initial state: rrc_nr::rrc_nr().                                        *)
(***************************************************************************)
Init ==
  /\ running = FALSE
  /\ cfg = rrc_nr_cfg_t(0, 0, 0, 0, "barred", <<>>)
  /\ mib_buffer = <<>>
  /\ sib_buffer = <<>>
  /\ nof_si_messages = 0
  /\ users = [r \in {} |-> ue_new]
  /\ timers = [r \in RNTI |-> 0]
  /\ rlc_sdus = [r \in RNTI |-> 0]
  /\ crashed = FALSE
  /\ last = call_record("rrc_nr", "void", <<>>, <<>>, dest_buffer)
  /\ VecInit

(***************************************************************************)
(* Actions: one per entry point.                                           *)
(***************************************************************************)
\* The count of SDUs written for rnti starts again when rnti gets a context.
sdus_after_add(u, rnti) ==
  IF rnti \in DOMAIN u THEN rlc_sdus ELSE [rlc_sdus EXCEPT ![rnti] = 0]

init(cfg_, alloc_fail_at, pack_fail_at) ==
  /\ ~crashed
  /\ Len(sib_buffer) < MaxStored
  /\ LET c == update_default_cfg(cfg_)
         g == generate_sibs(c, mib_buffer, sib_buffer, nof_si_messages,
                            alloc_fail_at, pack_fail_at)
         a == do_add_user(users, timers, c.coreless_rnti)
     IN /\ cfg' = c
        /\ mib_buffer' = g.mib_buffer
        /\ sib_buffer' = g.sib_buffer
        /\ nof_si_messages' = g.nof_si_messages
        /\ IF g.ret # "SUCCESS"
             THEN /\ last' = call_record("init", "ERROR", g.log \o <<"error">>, <<>>,
                                         dest_buffer)
                  /\ UNCHANGED <<running, users, timers, rlc_sdus>>
             ELSE /\ users' = a.users
                  /\ timers' = a.timers
                  /\ rlc_sdus' = sdus_after_add(users, c.coreless_rnti)
                  /\ running' = TRUE
                  /\ last' = call_record("init", "SUCCESS",
                       g.log \o <<"info", "info">> \o a.log \o <<"info">>,
                       <<config_mac(c, g.sib_buffer, g.nof_si_messages)>> \o a.calls
                         \o << [to |-> "rlc", fn |-> "add_bearer",
                                rnti |-> c.coreless_rnti, lcid |-> c.drb_lcid],
                               [to |-> "pdcp", fn |-> "add_bearer",
                                rnti |-> c.coreless_rnti, lcid |-> c.drb_lcid] >>,
                       dest_buffer)
  /\ UNCHANGED crashed
  /\ UNCHANGED vec_vars

stop ==
  /\ ~crashed
  /\ LET c == users_clear(users, timers)
     IN /\ running' = stop_running(running)
        /\ users' = c.users
        /\ timers' = c.timers
  /\ last' = call_record("stop", "void", <<>>, <<>>, dest_buffer)
  /\ UNCHANGED <<cfg, mib_buffer, sib_buffer, nof_si_messages, rlc_sdus, crashed>>
  /\ UNCHANGED vec_vars

add_user(rnti) ==
  /\ ~crashed
  /\ LET a == do_add_user(users, timers, rnti)
     IN /\ users' = a.users
        /\ timers' = a.timers
        /\ rlc_sdus' = sdus_after_add(users, rnti)
        /\ last' = call_record("add_user", "void", a.log, a.calls, dest_buffer)
  /\ UNCHANGED <<running, cfg, mib_buffer, sib_buffer, nof_si_messages, crashed>>
  /\ UNCHANGED vec_vars

handle_pdu(rnti, lcid, pdu_present) ==
  /\ ~crashed
  /\ last' = call_record("handle_pdu", "void",
                         handle_pdu_log(users, rnti, lcid, pdu_present), <<>>, dest_buffer)
  /\ UNCHANGED <<running, cfg, mib_buffer, sib_buffer, nof_si_messages, users, timers,
                 rlc_sdus, crashed>>
  /\ UNCHANGED vec_vars

\* write_pdu() hands the PDU to handle_pdu().
write_pdu(rnti, lcid, pdu_present) ==
  /\ ~crashed
  /\ last' = call_record("write_pdu", "void",
                         handle_pdu_log(users, rnti, lcid, pdu_present), <<>>, dest_buffer)
  /\ UNCHANGED <<running, cfg, mib_buffer, sib_buffer, nof_si_messages, users, timers,
                 rlc_sdus, crashed>>
  /\ UNCHANGED vec_vars

read_pdu_bcch_bch(tailroom) ==
  /\ ~crashed
  /\ LET r == do_read_pdu_bcch_bch(mib_buffer, tailroom, dest_buffer)
     IN last' = call_record("read_pdu_bcch_bch", r.ret, r.log, <<>>, r.buffer)
  /\ UNCHANGED <<running, cfg, mib_buffer, sib_buffer, nof_si_messages, users, timers,
                 rlc_sdus, crashed>>
  /\ UNCHANGED vec_vars

read_pdu_bcch_dlsch(sib_index, tailroom) ==
  /\ ~crashed
  /\ LET r == do_read_pdu_bcch_dlsch(sib_buffer, sib_index, tailroom, dest_buffer)
     IN last' = call_record("read_pdu_bcch_dlsch", r.ret, r.log, <<>>, r.buffer)
  /\ UNCHANGED <<running, cfg, mib_buffer, sib_buffer, nof_si_messages, users, timers,
                 rlc_sdus, crashed>>
  /\ UNCHANGED vec_vars

\* Faulty variant: the callback does not start the timer again.
timer_callback_no_rearm(t, rnti) == t

\* rrc_setup_periodic_timer.run() at the end of the callback.
timer_callback_rearm(t, rnti) == unique_timer_run(t, rnti)

\* The callback set in ue::ue(), run by the timer wheel when the timer of the
\* context of rnti expires: send_connection_setup(), then run().  alloc_ok is
\* whether make_byte_buffer() returns a buffer: with none, send_dl_ccch() logs
\* and then dereferences the null pointer.  A timer that outlived its context
\* calls back on freed memory: the process dies or writes from what is there.
timer_expired(rnti, alloc_ok, pack_ok, max_firings) ==
  /\ ~crashed
  /\ timers[rnti] > 0
  /\ rlc_sdus[rnti] < max_firings
  /\ IF rnti \in DOMAIN users /\ alloc_ok
       THEN LET s == send_dl_ccch(rrc_setup_msg(users[rnti]), rnti, pack_ok)
            IN /\ users' = [users EXCEPT ![rnti] = transaction_id_incr(@)]
               /\ timers' = timer_callback_rearm(unique_timer_trigger(timers, rnti), rnti)
               /\ rlc_sdus' = [rlc_sdus EXCEPT ![rnti] = @ + 1]
               /\ last' = call_record("timer_expired", "void", s.log, s.calls, dest_buffer)
               /\ UNCHANGED crashed
       ELSE IF ~alloc_ok
         THEN /\ crashed' = TRUE
              /\ last' = call_record("timer_expired", "void", <<"error">>, <<>>,
                                     dest_buffer)
              /\ UNCHANGED <<users, timers, rlc_sdus>>
         ELSE \E dies \in BOOLEAN :
                IF dies
                  THEN /\ crashed' = TRUE
                       /\ last' = call_record("timer_expired", "void", <<>>, <<>>,
                                              dest_buffer)
                       /\ UNCHANGED <<users, timers, rlc_sdus>>
                  ELSE LET s == send_dl_ccch(rrc_setup_msg(ue_new), rnti, pack_ok)
                       IN /\ timers' = timer_callback_rearm(
                                         unique_timer_trigger(timers, rnti), rnti)
                          /\ rlc_sdus' = [rlc_sdus EXCEPT ![rnti] = @ + 1]
                          /\ last' = call_record("timer_expired", "void", s.log, s.calls,
                                                 dest_buffer)
                          /\ UNCHANGED <<users, crashed>>
  /\ UNCHANGED <<running, cfg, mib_buffer, sib_buffer, nof_si_messages>>
  /\ UNCHANGED vec_vars

(***************************************************************************)
(* The engine with its device contexts: every entry point.  Here init()    *)
(* either succeeds or fails on its first allocation.                       *)
(***************************************************************************)
Next ==
  \/ \E c \in CallerCfgs, a \in {-1, 0} : init(c, a, -1)
  \/ stop
  \/ \E rnti \in RNTI : add_user(rnti)
  \/ \E rnti \in RNTI, lcid \in LCID, pdu \in BOOLEAN : handle_pdu(rnti, lcid, pdu)
  \/ \E rnti \in RNTI, lcid \in LCID, pdu \in BOOLEAN : write_pdu(rnti, lcid, pdu)
  \/ \E t \in Tailrooms : read_pdu_bcch_bch(t)
  \/ \E i \in 0..(MaxStored + 1), t \in Tailrooms : read_pdu_bcch_dlsch(i, t)
  \/ \E rnti \in RNTI, alloc_ok \in BOOLEAN, pack_ok \in BOOLEAN :
       timer_expired(rnti, alloc_ok, pack_ok, MaxFirings)

Spec == Init /\ [][Next]_vars

(***************************************************************************)
(* The system information store: init() with every allocation and encoding *)
(* outcome, stop(), add_user() and the read calls.                         *)
(***************************************************************************)
NextSI ==
  \/ \E c \in CallerCfgs, a \in -1..2, p \in -1..2 : init(c, a, p)
  \/ stop
  \/ \E rnti \in RNTI : add_user(rnti)
  \/ \E t \in Tailrooms : read_pdu_bcch_bch(t)
  \/ \E i \in 0..(MaxStored + 1), t \in Tailrooms : read_pdu_bcch_dlsch(i, t)

SpecSI == Init /\ [][NextSI]_vars

(***************************************************************************)
(* generate_sibs() on a fresh engine, for every valid configuration within *)
(* the bounds: up to MaxSched scheduling entries of up to MaxMap mappings, *)
(* over the two information blocks SIB2 and SIB3 held in cfg.sibs.         *)
(***************************************************************************)
SeqsUpTo(S, n) == UNION { [1..k -> S] : k \in 0..n }

GenCfgs ==
  { [rrc_nr_cfg_t(70, 4, 2, 1, barred, sched) EXCEPT
       !.si_sched_info_present = present, !.nof_sibs = 2, !.sibs = <<2, 3>>] :
      barred \in {"barred", "not_barred"}, present \in BOOLEAN,
      sched \in SeqsUpTo(SeqsUpTo({0, 1}, MaxMap), MaxSched) }

InitGen ==
  /\ running = FALSE
  /\ cfg \in GenCfgs
  /\ mib_buffer = <<>>
  /\ sib_buffer = <<>>
  /\ nof_si_messages = 0
  /\ users = [r \in {} |-> ue_new]
  /\ timers = [r \in RNTI |-> 0]
  /\ rlc_sdus = [r \in RNTI |-> 0]
  /\ crashed = FALSE
  /\ last = call_record("rrc_nr", "void", <<>>, <<>>, dest_buffer)
  /\ VecInit

generate_sibs_call(alloc_fail_at, pack_fail_at) ==
  /\ last.op = "rrc_nr"
  /\ LET g == generate_sibs(cfg, mib_buffer, sib_buffer, nof_si_messages,
                            alloc_fail_at, pack_fail_at)
     IN /\ mib_buffer' = g.mib_buffer
        /\ sib_buffer' = g.sib_buffer
        /\ nof_si_messages' = g.nof_si_messages
        /\ last' = call_record("generate_sibs", g.ret, g.log, <<>>, dest_buffer)
  /\ UNCHANGED <<running, cfg, users, timers, rlc_sdus, crashed>>
  /\ UNCHANGED vec_vars

NextGen ==
  \E a \in -1..(MaxSched + 1), p \in -1..(MaxSched + 1) : generate_sibs_call(a, p)

SpecGen == InitGen /\ [][NextGen]_vars

(***************************************************************************)
(* One context whose timer fires until transaction_id has wrapped around.  *)
(***************************************************************************)
NextWrap ==
  \/ init(rrc_nr_cfg_t(70, 4, 2, 1, "barred", <<>>), -1, -1)
  \/ \E rnti \in RNTI, alloc_ok \in BOOLEAN, pack_ok \in BOOLEAN :
       timer_expired(rnti, alloc_ok, pack_ok, WrapFirings)

SpecWrap == Init /\ [][NextWrap]_vars

(***************************************************************************)
(* The retry timers under a fair timer wheel: a timer that is running       *)
(* expires and its callback is run.  Buffers are available to the callback. *)
(***************************************************************************)
NextLive ==
  \/ \E c \in CallerCfgs : init(c, -1, -1)
  \/ stop
  \/ \E rnti \in RNTI : add_user(rnti)
  \/ \E rnti \in RNTI, lcid \in LCID, pdu \in BOOLEAN : handle_pdu(rnti, lcid, pdu)
  \/ \E rnti \in RNTI, lcid \in LCID, pdu \in BOOLEAN : write_pdu(rnti, lcid, pdu)
  \/ \E rnti \in RNTI, pack_ok \in BOOLEAN : timer_expired(rnti, TRUE, pack_ok, MaxFirings)

TimerWheelFair ==
  \A rnti \in RNTI :
    WF_vars(\E pack_ok \in BOOLEAN : timer_expired(rnti, TRUE, pack_ok, MaxFirings))

SpecLive == Init /\ [][NextLive]_vars /\ TimerWheelFair

(***************************************************************************)
(* Two contexts whose timers fire in any order.                            *)
(***************************************************************************)
NextInterleaved ==
  \/ \E rnti \in RNTI : add_user(rnti)
  \/ \E rnti \in RNTI, alloc_ok \in BOOLEAN, pack_ok \in BOOLEAN :
       timer_expired(rnti, alloc_ok, pack_ok, MaxInterleaved)

SpecInterleaved == Init /\ [][NextInterleaved]_vars

(***************************************************************************)
(* The bounded vectors: every member function, called within its stated    *)
(* preconditions, in a build with assert() and in one without.  ref holds  *)
(* what the same operations make of two plain sequences.                   *)
(***************************************************************************)
InitVec ==
  /\ running = FALSE
  /\ cfg = rrc_nr_cfg_t(0, 0, 0, 0, "barred", <<>>)
  /\ mib_buffer = <<>>
  /\ sib_buffer = <<>>
  /\ nof_si_messages = 0
  /\ users = [r \in {} |-> ue_new]
  /\ timers = [r \in RNTI |-> 0]
  /\ rlc_sdus = [r \in RNTI |-> 0]
  /\ crashed = FALSE
  /\ last = call_record("rrc_nr", "void", <<>>, <<>>, dest_buffer)
  /\ NDEBUG \in BOOLEAN
  /\ this_ = bounded_vector_new
  /\ other = bounded_vector_new
  /\ other_alive = FALSE
  /\ ref = [this_ |-> <<>>, other |-> <<>>]
  /\ aborted = FALSE
  /\ vec_op = "bounded_vector"

\* One call: its name, whether it aborted, the two vectors and the two
\* reference sequences after it.
vec_step(op, abort, v, o, alive, ref_this, ref_other) ==
  /\ ~aborted
  /\ vec_op' = op
  /\ aborted' = abort
  /\ this_' = v
  /\ other' = o
  /\ other_alive' = alive
  /\ ref' = [this_ |-> ref_this, other |-> ref_other]
  /\ UNCHANGED NDEBUG
  /\ UNCHANGED rrc_vars

\* n copies of x.
Copies(n, x) == [i \in 1..n |-> x]

\* The objects of the values of a sequence.
Objs(values) == [i \in 1..Len(values) |-> obj(values[i])]

push_back(x) ==
  /\ this_.size_ < MAX_N
  /\ LET r == push_back_of(this_, x, NDEBUG)
     IN vec_step("push_back", r.abort, r.v, other, other_alive,
                 Append(ref.this_, x), ref.other)

emplace_back(x) ==
  /\ this_.size_ < MAX_N
  /\ LET r == emplace_back_of(this_, x, NDEBUG)
     IN vec_step("emplace_back", r.abort, r.v, other, other_alive,
                 Append(ref.this_, x), ref.other)

pop_back ==
  /\ this_.size_ > 0
  /\ LET r == pop_back_of(this_, NDEBUG)
     IN vec_step("pop_back", r.abort, r.v, other, other_alive,
                 SubSeq(ref.this_, 1, Len(ref.this_) - 1), ref.other)

erase(pos) ==
  /\ pos < this_.size_
  /\ LET r == erase_of(this_, pos, NDEBUG)
     IN vec_step("erase", r.abort, r.v, other, other_alive,
                 SubSeq(ref.this_, 1, pos) \o SubSeq(ref.this_, pos + 2, Len(ref.this_)),
                 ref.other)

\* The iterators are ones the caller got from begin() and end() of a vector
\* that holds something.
erase_range(it_start, it_end) ==
  /\ this_.size_ > 0
  /\ it_start <= it_end /\ it_end <= this_.size_
  /\ LET r == erase_range_of(this_, it_start, it_end, NDEBUG)
     IN vec_step("erase_range", r.abort, r.v, other, other_alive,
                 SubSeq(ref.this_, 1, it_start)
                   \o SubSeq(ref.this_, it_end + 1, Len(ref.this_)),
                 ref.other)

resize(count, x) ==
  /\ ~aborted
  /\ LET r == resize_of(this_, count, x, NDEBUG)
     IN vec_step("resize", r.abort, r.v, other, other_alive,
                 IF count <= Len(ref.this_)
                   THEN SubSeq(ref.this_, 1, count)
                   ELSE ref.this_ \o Copies(count - Len(ref.this_), x),
                 ref.other)

assign(nof_elems, x) ==
  /\ ~aborted
  /\ LET r == assign_fill(this_, nof_elems, x, NDEBUG)
     IN vec_step("assign", r.abort, r.v, other, other_alive,
                 Copies(nof_elems, x), ref.other)

assign_ilist(values) ==
  /\ ~aborted
  /\ LET r == assign_range(this_, Objs(values), NDEBUG)
     IN vec_step("assign_ilist", r.abort, r.v, other, other_alive, values, ref.other)

clear_call ==
  /\ ~aborted
  /\ LET r == clear(this_, NDEBUG)
     IN vec_step("clear", r.abort, r.v, other, other_alive, <<>>, ref.other)

\* begin() and end() called by the user of the vector.
begin_end ==
  /\ ~aborted
  /\ vec_step("begin_end", begin_asserts(this_, NDEBUG) \/ end_asserts(this_, NDEBUG),
              this_, other, other_alive, ref.this_, ref.other)

\* this_ = other
copy_assign ==
  /\ other_alive
  /\ LET r == copy_assign_of(this_, other, NDEBUG)
     IN vec_step("copy_assign", r.abort, r.v, other, other_alive, ref.other, ref.other)

\* this_ = std::move(other)
move_assign ==
  /\ other_alive
  /\ LET r == move_assign_of(this_, other, NDEBUG)
     IN vec_step("move_assign", r.abort, r.v, r.o, other_alive, ref.other, <<>>)

\* bounded_vector other(this_)
copy_construct ==
  /\ ~other_alive
  /\ LET r == copy_ctor(this_, NDEBUG)
     IN vec_step("copy_construct", r.abort, this_, r.v, TRUE, ref.this_, ref.this_)

\* bounded_vector other(std::move(this_))
move_construct ==
  /\ ~other_alive
  /\ LET r == move_ctor(this_, NDEBUG)
     IN vec_step("move_construct", r.abort, r.o, r.v, TRUE, <<>>, ref.this_)

\* bounded_vector other(N, val)
fill_construct(N, val) ==
  /\ ~other_alive
  /\ LET r == fill_ctor(N, val, NDEBUG)
     IN vec_step("fill_construct", r.abort, this_, r.v, TRUE, ref.this_, Copies(N, val))

\* other goes out of scope.
destruct ==
  /\ other_alive
  /\ LET r == dtor(other, NDEBUG)
     IN vec_step("destruct", r.abort, this_, r.v, FALSE, ref.this_, <<>>)

NextVec ==
  \/ \E x \in T : push_back(x)
  \/ \E x \in T : emplace_back(x)
  \/ pop_back
  \/ \E pos \in 0..(MAX_N - 1) : erase(pos)
  \/ \E it_start \in 0..MAX_N, it_end \in 0..MAX_N : erase_range(it_start, it_end)
  \/ \E count \in 0..MAX_N, x \in T : resize(count, x)
  \/ \E nof_elems \in 0..MAX_N, x \in T : assign(nof_elems, x)
  \/ \E values \in SeqsUpTo(T, MAX_N) : assign_ilist(values)
  \/ clear_call
  \/ begin_end
  \/ copy_assign
  \/ move_assign
  \/ copy_construct
  \/ move_construct
  \/ \E N \in 0..MAX_N, val \in T : fill_construct(N, val)
  \/ destruct

SpecVec == InitVec /\ [][NextVec]_vars

(***************************************************************************)
(* Properties.                                                             *)
(***************************************************************************)
\* The number of scheduling entries of a configuration (0 without
\* scheduling information).
ScheduleEntries(c) == IF c.si_sched_info_present THEN Len(c.sched_info_list) ELSE 0

\* The information blocks scheduling entry e of c maps, in mapping order.
MappedBlocks(c, e) ==
  [m \in 1..Len(c.sched_info_list[e]) |-> c.sibs[c.sched_info_list[e][m] + 1]]

\* The write_sdu calls among the calls of the last entry point.
WrittenSdus(calls) == { i \in DOMAIN calls : calls[i].fn = "write_sdu" }

\* How often a level occurs in a log.
Count(log, level) == Cardinality({ i \in DOMAIN log : log[i] = level })

\* C1: for every valid configuration with N scheduling entries (N = 0 without
\* scheduling information), a generate_sibs() on a fresh engine that succeeds
\* stores one MIB PDU and exactly N+1 SI PDUs; SI PDU 0 is the SIB1 message and
\* SI PDU i (1 <= i <= N) carries exactly the blocks entry i-1 maps, in order.
C1_GenerateSibs ==
  [][\A a \in -1..(MaxSched + 1) :
       (generate_sibs_call(a, -1) /\ last'.ret = "SUCCESS") =>
         LET N == ScheduleEntries(cfg)
         IN /\ Len(mib_buffer') = 1
            /\ unpack_bcch_bch(mib_buffer'[1].msg) = cfg.mib
            /\ Len(sib_buffer') = N + 1
            /\ nof_si_messages' = N
            /\ sib_buffer'[1] =
                 byte_buffer(pack_bcch_dl_sch(
                   [type |-> "sib_type1",
                    si_sched_info_present |-> cfg.si_sched_info_present,
                    sched_info_list |-> cfg.sched_info_list]))
            /\ \A i \in 1..N :
                 /\ sib_buffer'[i + 1].msg[1] = 0
                 /\ unpack_sys_info(sib_buffer'[i + 1].msg) = MappedBlocks(cfg, i)
                 /\ sib_buffer'[i + 1].N_bytes = Len(sib_buffer'[i + 1].msg)]_vars

\* C1 witness: a build for two entries whose second entry maps SIB3 then SIB2.
C1_Witness ==
  /\ last.op = "generate_sibs" /\ last.ret = "SUCCESS"
  /\ cfg.si_sched_info_present /\ Len(cfg.sched_info_list) = 2
  /\ Len(sib_buffer) = 3
  /\ sib_buffer[3] = byte_buffer(<<0, 2, 3, 2>>)

\* C2: after a successful init(), also a further one, the store holds exactly
\* N+1 SI PDUs for the N scheduling entries plus one MIB PDU, and
\* nof_si_messages is N.
C2_StoreHoldsNPlusOne ==
  (last.op = "init" /\ last.ret = "SUCCESS") =>
    /\ Len(mib_buffer) = 1
    /\ Len(sib_buffer) = ScheduleEntries(cfg) + 1
    /\ nof_si_messages = ScheduleEntries(cfg)

\* C3: add_user(id) for an id without a context adds one context for it and
\* arms one timer; for an id that has a context it changes neither the table
\* nor the timers, makes no call on RLC or PDCP and logs an error.
C3_AddUser ==
  [][\A rnti \in RNTI :
       add_user(rnti) =>
         IF rnti \notin DOMAIN users
           THEN /\ DOMAIN users' = DOMAIN users \cup {rnti}
                /\ \A r \in DOMAIN users : users'[r] = users[r]
                /\ timers' = [timers EXCEPT ![rnti] = @ + 1]
           ELSE /\ users' = users
                /\ timers' = timers
                /\ last'.calls = <<>>
                /\ last'.log = <<"error">>]_vars

\* C3 witness: a duplicate add_user() for a context whose timer has fired.
C3_Witness ==
  /\ last.op = "add_user" /\ last.log = <<"error">>
  /\ \E r \in DOMAIN users : users[r].transaction_id > 0

\* C4: a stop() that follows a stop() changes nothing of the engine (running
\* flag, context table, timers, stored PDUs, configuration), makes no call on
\* a collaborator and logs nothing.
C4_StopIdempotent ==
  [][(last.op = "stop" /\ stop) =>
       /\ UNCHANGED <<running, cfg, mib_buffer, sib_buffer, nof_si_messages, users,
                      timers, rlc_sdus, crashed>>
       /\ last'.calls = <<>>
       /\ last'.log = <<>>]_vars

\* C4 witness: the engine has been stopped while a context that had sent
\* connection setups existed.
C4_Witness ==
  /\ last.op = "stop" /\ ~running /\ DOMAIN users = {}
  /\ sib_buffer # <<>>
  /\ \E r \in RNTI : rlc_sdus[r] > 0

\* C5: on a running engine with N scheduling entries, read_pdu_bcch_dlsch()
\* for an index above N returns an error and leaves the destination as it
\* was; for an index up to N and enough room it succeeds and the destination
\* holds the bytes and the length of SI PDU index.
C5_ReadSiPdu ==
  [][\A i \in 0..(MaxStored + 1), t \in Tailrooms :
       (running /\ read_pdu_bcch_dlsch(i, t)) =>
         IF i > ScheduleEntries(cfg)
           THEN last'.ret = "ERROR" /\ last'.buffer = dest_buffer
           ELSE t >= sib_buffer[i + 1].N_bytes =>
                  /\ last'.ret = "SUCCESS"
                  /\ last'.buffer.N_bytes = sib_buffer[i + 1].N_bytes
                  /\ SubSeq(last'.buffer.msg, 1, last'.buffer.N_bytes) =
                       sib_buffer[i + 1].msg]_vars

\* C6: the connection setup written on the k-th firing of a context's timer
\* (k counted from 0) carries transaction id k mod 4, also once
\* transaction_id has wrapped around.
C6_TransactionId ==
  (last.op = "timer_expired" /\ last.log = <<"rrc_message">>) =>
    /\ Len(last.calls) = 1
    /\ LET c == last.calls[1]
       IN /\ c.rnti \in DOMAIN users
          /\ unpack_dl_ccch(c.pdu.msg).rrc_transaction_id =
               (users[c.rnti].nof_firings - 1) % 4

\* C6 witness: the firing after transaction_id wrapped from 255 to 0.
C6_Witness ==
  /\ last.op = "timer_expired" /\ last.log = <<"rrc_message">>
  /\ \E r \in DOMAIN users :
       users[r].nof_firings = TransactionIdModulus + 1 /\ users[r].transaction_id = 1

\* C7: no connection setup is written to the link layer for an id that has
\* no context: once stop() removed a context after two firings, the two PDUs
\* written stay the only ones until the id is added again.
C7_NoSetupAfterRemoval ==
  [][\A r \in RNTI :
       r \notin DOMAIN users =>
         /\ \A i \in WrittenSdus(last'.calls) : last'.calls[i].rnti # r
         /\ (r \notin DOMAIN users' => rlc_sdus'[r] = rlc_sdus[r])]_vars

\* C7 witness: a context removed by stop() after exactly two firings, with
\* room left in the model for a third.
C7_Witness ==
  /\ 70 \notin DOMAIN users /\ rlc_sdus[70] = 2 /\ rlc_sdus[70] < MaxFirings
  /\ last.op = "stop"

\* C8: handle_pdu() / write_pdu() for an id without a context, on any channel,
\* changes neither the table nor the timers, makes no call on a collaborator,
\* logs exactly one warning and no error, and returns nothing.
C8_UnknownRnti ==
  [][\A rnti \in RNTI, lcid \in LCID, pdu \in BOOLEAN :
       ((handle_pdu(rnti, lcid, pdu) \/ write_pdu(rnti, lcid, pdu))
          /\ rnti \notin DOMAIN users) =>
         /\ users' = users
         /\ timers' = timers
         /\ last'.calls = <<>>
         /\ Count(last'.log, "warning") = 1
         /\ Count(last'.log, "error") = 0
         /\ last'.ret = "void"]_vars

\* C8 witness: a PDU for an unknown id has been discarded while another id
\* has a context.
C8_Witness ==
  /\ last.op = "handle_pdu" /\ last.log = <<"info", "warning">>
  /\ DOMAIN users # {} /\ DOMAIN users # RNTI

C10_EncodeFailureDropsPdu ==
  [][\A rnti \in DOMAIN users :
       timer_expired(rnti, TRUE, FALSE, MaxFirings) =>
         /\ Count(last'.log, "error") = 1
         /\ WrittenSdus(last'.calls) = {}
         /\ timers'[rnti] = 1]_vars

\* An engine on which nothing has been built yet: not running, no MIB or SI
\* PDU stored, no context, no timer.
Pristine ==
  /\ ~running
  /\ mib_buffer = <<>>
  /\ sib_buffer = <<>>
  /\ DOMAIN users = {}
  /\ \A r \in RNTI : timers[r] = 0

\* C11: an init() that fails on an engine on which nothing has been built
\* returns an error and leaves nothing behind: the engine is not running, no
\* MIB or SI PDU is stored (both reads still fail), the scheduler has not been
\* configured and no context or timer exists.
C11_InitFailureNoPartialState ==
  [][\A c \in CallerCfgs, a \in -1..2, p \in -1..2 :
       (Pristine /\ init(c, a, p) /\ last'.ret = "ERROR") =>
         /\ ~running'
         /\ mib_buffer' = <<>>
         /\ sib_buffer' = <<>>
         /\ do_read_pdu_bcch_bch(mib_buffer', 8, dest_buffer).ret = "ERROR"
         /\ do_read_pdu_bcch_dlsch(sib_buffer', 0, 8, dest_buffer).ret = "ERROR"
         /\ last'.calls = <<>>
         /\ DOMAIN users' = {}
         /\ \A r \in RNTI : timers'[r] = 0]_vars

\* C12: a generate_sibs() in which the encoding of the MIB or of an SI message
\* fails returns an error.
C12_EncodeFailureAbortsBuild ==
  [][\A a \in -1..(MaxSched + 1), p \in 0..(MaxSched + 1) :
       (generate_sibs_call(a, p) /\ p <= ScheduleEntries(cfg) + 1
          /\ (a = -1 \/ a > p)) =>
         last'.ret = "ERROR"]_vars

\* C13: read_pdu_bcch_bch() and read_pdu_bcch_dlsch() change nothing of the
\* engine (stored PDUs, context table, timers), and when the room in the
\* destination is less than the length of the stored PDU, or no MIB PDU has
\* been built, they return an error and leave the destination as it was.
C13_ReadsPureNoTruncation ==
  [][/\ \A t \in Tailrooms :
          read_pdu_bcch_bch(t) =>
            /\ UNCHANGED <<running, cfg, mib_buffer, sib_buffer, nof_si_messages,
                           users, timers, rlc_sdus, crashed>>
            /\ last'.calls = <<>>
            /\ (mib_buffer = <<>> \/ t < mib_buffer[1].N_bytes) =>
                 (last'.ret = "ERROR" /\ last'.buffer = dest_buffer)
     /\ \A i \in 0..(MaxStored + 1), t \in Tailrooms :
          read_pdu_bcch_dlsch(i, t) =>
            /\ UNCHANGED <<running, cfg, mib_buffer, sib_buffer, nof_si_messages,
                           users, timers, rlc_sdus, crashed>>
            /\ last'.calls = <<>>
            /\ (i < Len(sib_buffer) /\ t < sib_buffer[i + 1].N_bytes) =>
                 (last'.ret = "ERROR" /\ last'.buffer = dest_buffer)]_vars

\* C13 witness: a read of the stored MIB PDU has been refused for lack of
\* room, on an engine with a context whose timer has fired.
C13_Witness ==
  /\ last.op = "read_pdu_bcch_bch" /\ last.ret = "ERROR"
  /\ mib_buffer # <<>>
  /\ \E r \in DOMAIN users : users[r].nof_firings > 0 /\ timers[r] = 1

C15_NoCallbackOnDestroyedContext ==
  [][/\ stop => (DOMAIN users' = {} /\ \A r \in RNTI : timers'[r] = 0)
     /\ \A r \in RNTI, alloc_ok \in BOOLEAN, pack_ok \in BOOLEAN :
          timer_expired(r, alloc_ok, pack_ok, MaxFirings) => r \in DOMAIN users]_vars

\* C15 witness: stop() has destroyed two contexts whose timers had both fired.
C15_Witness ==
  /\ last.op = "stop"
  /\ \A r \in RNTI : rlc_sdus[r] > 0 /\ timers[r] = 0 /\ r \notin DOMAIN users

\* How many calls of fn on collaborator to for rnti are among calls.
CallsFor(calls, to, fn, rnti) ==
  Cardinality({ i \in DOMAIN calls :
                  calls[i].to = to /\ calls[i].fn = fn /\ calls[i].rnti = rnti })

\* C16: an add_user(id) that creates a context registers the id exactly once
\* with RLC and exactly once with PDCP and configures its default bearer on
\* both.
C16_AddUserConfiguresBearer ==
  [][\A rnti \in RNTI :
       (add_user(rnti) /\ rnti \notin DOMAIN users) =>
         /\ CallsFor(last'.calls, "rlc", "add_user", rnti) = 1
         /\ CallsFor(last'.calls, "pdcp", "add_user", rnti) = 1
         /\ CallsFor(last'.calls, "rlc", "add_bearer", rnti) = 1
         /\ CallsFor(last'.calls, "pdcp", "add_bearer", rnti) = 1]_vars

\* C17: handle_pdu() / write_pdu() for an id that has a context changes
\* nothing of the engine (table, transaction counters, timers) and makes no
\* call on a collaborator, on every channel; on srb0, srb1 and srb2 it logs no
\* error, on any other channel exactly one.
C17_KnownRntiNoOp ==
  [][\A rnti \in RNTI, lcid \in LCID, pdu \in BOOLEAN :
       ((handle_pdu(rnti, lcid, pdu) \/ write_pdu(rnti, lcid, pdu))
          /\ rnti \in DOMAIN users) =>
         /\ UNCHANGED <<running, cfg, mib_buffer, sib_buffer, nof_si_messages,
                        users, timers, rlc_sdus, crashed>>
         /\ last'.calls = <<>>
         /\ Count(last'.log, "error") = (IF lcid \in {0, 1, 2} THEN 0 ELSE 1)
         /\ Count(last'.log, "warning") = 0]_vars

\* C17 witness: a PDU on a channel that is no signalling bearer has been
\* discarded while every id has a context and a timer has fired.
C17_Witness ==
  /\ last.op = "handle_pdu" /\ last.log = <<"info", "error">>
  /\ DOMAIN users = RNTI
  /\ \E r \in RNTI : users[r].transaction_id > 0

\* C18: a firing on which make_byte_buffer() returns no buffer logs the
\* failure, writes no PDU to the link layer and has no further effect: the
\* process goes on, the context stays in the table with its timer running
\* again, and the other contexts and timers are as before.
C18_AllocFailureIsLocal ==
  [][\A rnti \in DOMAIN users, pack_ok \in BOOLEAN :
       timer_expired(rnti, FALSE, pack_ok, MaxFirings) =>
         /\ Count(last'.log, "error") = 1
         /\ WrittenSdus(last'.calls) = {}
         /\ ~crashed'
         /\ DOMAIN users' = DOMAIN users
         /\ timers'[rnti] = 1
         /\ \A r \in RNTI \ {rnti} :
              /\ timers'[r] = timers[r]
              /\ (r \in DOMAIN users => users'[r] = users[r])]_vars

\* C19: the configuration init() works with is the same for any two
\* configurations a caller passes: whichever the caller passed, cfg, the cell
\* configuration handed to the scheduler and the id and channel of the
\* bootstrap bearer are those any other caller configuration gives.
C19_TotalOverlay ==
  [][\A c1 \in CallerCfgs, c2 \in CallerCfgs :
       init(c1, -1, -1) =>
         LET e == update_default_cfg(c2)
         IN /\ cfg' = e
            /\ last'.calls[1] = config_mac(e, sib_buffer', nof_si_messages')
            /\ \E i \in DOMAIN last'.calls :
                 /\ last'.calls[i].to = "rlc" /\ last'.calls[i].fn = "add_bearer"
                 /\ last'.calls[i].rnti = e.coreless_rnti
                 /\ last'.calls[i].lcid = e.drb_lcid]_vars

\* C20: while the engine is not running the context table is empty and no
\* timer is running.
C20_NotRunningNoContexts ==
  ~running => (DOMAIN users = {} /\ \A r \in RNTI : timers[r] = 0)

\* C21: a firing of the timer of the context of id A leaves every other
\* context, its transaction counter, its timer and the PDUs written for it as
\* they were, writes a PDU for A only, and the transaction id that PDU carries
\* is the number of A's own earlier firings modulo 4, whatever the other
\* timers did in between.
C21_ContextsIndependent ==
  [][\A A \in RNTI, alloc_ok \in BOOLEAN, pack_ok \in BOOLEAN :
       timer_expired(A, alloc_ok, pack_ok, MaxInterleaved) =>
         /\ \A r \in RNTI \ {A} :
              /\ timers'[r] = timers[r]
              /\ rlc_sdus'[r] = rlc_sdus[r]
              /\ (r \in DOMAIN users) = (r \in DOMAIN users')
              /\ (r \in DOMAIN users => users'[r] = users[r])
         /\ \A i \in DOMAIN last'.calls :
              /\ last'.calls[i].fn = "write_sdu" /\ last'.calls[i].rnti = A
              /\ (A \in DOMAIN users /\ pack_ok) =>
                   unpack_dl_ccch(last'.calls[i].pdu.msg).rrc_transaction_id =
                     users[A].nof_firings % 4]_vars

\* C21 witness: the timer of 0x47 fires for the second time after the timer of
\* 0x46 has fired five times, and its PDU carries transaction id 1.
C21_Witness ==
  /\ DOMAIN users = RNTI
  /\ users[70].nof_firings = 5 /\ users[71].nof_firings = 2
  /\ last.op = "timer_expired" /\ Len(last.calls) = 1
  /\ last.calls[1].rnti = 71 /\ last.calls[1].pdu.N_bytes = 4
  /\ unpack_dl_ccch(last.calls[1].pdu.msg).rrc_transaction_id = 1

\* C22: no assert() of bounded_vector fails when every call is within its
\* stated preconditions.
C22_NoAssertionFails == ~aborted

\* C23: after every sequence of calls within their preconditions that has
\* run to its end, the size of each vector is between 0 and MAX_N and the
\* vector holds exactly the elements of its reference sequence, in order, with
\* nothing constructed behind them; after a move the source is empty.
C23_RefinesSequence ==
  ~aborted =>
    /\ this_.size_ \in 0..MAX_N
    /\ elements(this_) = Objs(ref.this_)
    /\ \A i \in (this_.size_ + 1)..MAX_N : this_.buffer[i] = raw
    /\ other_alive =>
         /\ other.size_ \in 0..MAX_N
         /\ elements(other) = Objs(ref.other)
         /\ \A i \in (other.size_ + 1)..MAX_N : other.buffer[i] = raw
    /\ vec_op = "move_construct" => this_.size_ = 0
    /\ vec_op = "move_assign" => other.size_ = 0

\* C23 witness: a full vector has been move-assigned onto a shorter one.
C23_Witness ==
  /\ vec_op = "move_assign" /\ ~aborted
  /\ ref.this_ = <<1, 2, 2>> /\ this_.size_ = MAX_N
  /\ other_alive /\ other.size_ = 0

====
